---------------------------- MODULE Spec2Model ----------------------------
(***************************************************************************)
(* Model of pdfer.py, the resistor label generator: the module-level       *)
(* layout constants, create_label (one label image per resistor value),    *)
(* generate_labels (the batch loop) and the script's final print.          *)
(*                                                                         *)
(* Strings are sequences of one-character strings, so that formatting a    *)
(* value is computed digit by digit.  Coordinates handed to draw.text are  *)
(* floats in the program (both are results of "/ 2"); the model keeps them *)
(* exactly, in units of 1/200 pixel.                                       *)
(***************************************************************************)
EXTENDS Integers, Sequences, FiniteSets, TLC

(***************************************************************************)
(* Bounds of the model.                                                    *)
(***************************************************************************)
MaxLen == 3
MaxRerunLen == 2
MaxRuns == 2

\* The integer resistor values the value list is drawn from.
Values == {-7, 0, 7, 10, 100, 1000000}
\* The values of the lists the script is run on more than once.
RerunValues == {10, 100}

(***************************************************************************)
(* Configuration constants of the script.                                  *)
(***************************************************************************)
DPI == 300
LABEL_WIDTH_MM == 15
LABEL_HEIGHT_MM == 15
FONT_SIZE_PERCENT == 23
TEXT_AREA_HEIGHT_PERCENT == 25

\* Variant of MmToPx that rounds up instead of truncating.
MmToPxCeil(mm) == (mm * DPI * 10 + 253) \div 254
\* int(mm * DPI / 25.4): the quotient is not negative, int() truncates it.
MmToPx(mm) == (mm * DPI * 10) \div 254

LABEL_WIDTH == MmToPx(LABEL_WIDTH_MM)
LABEL_HEIGHT == MmToPx(LABEL_HEIGHT_MM)

\* int(LABEL_HEIGHT * FONT_SIZE_PERCENT / 100), the size the font is loaded at.
FontSize == (LABEL_HEIGHT * FONT_SIZE_PERCENT) \div 100

\* One pixel in the model's coordinate unit (the "/ 2" and "/ 100" of line 134).
Unit == 2 * 100

(***************************************************************************)
(* Formatting: f"{value}" of a Python int.                                 *)
(***************************************************************************)
DigitChar(d) == <<"0", "1", "2", "3", "4", "5", "6", "7", "8", "9">>[d + 1]

RECURSIVE Digits(_)
Digits(n) == IF n < 10 THEN <<DigitChar(n)>>
             ELSE Digits(n \div 10) \o <<DigitChar(n % 10)>>

\* Variant of FormatInt that loses the sign.
FormatIntNoSign(v) == IF v < 0 THEN Digits(-v) ELSE Digits(v)
\* f"{value}": the decimal numeral, "-" first for a negative value.
FormatInt(v) == IF v < 0 THEN <<"-">> \o Digits(-v) ELSE Digits(v)

\* text = f"{value}Ω"
LabelText(value) == FormatInt(value) \o <<"Ω">>

\* f"{value}.png", the name of the file inside the output folder
FileName(value) == FormatInt(value) \o <<".", "p", "n", "g">>

(***************************************************************************)
(* The font, as far as the script sees it: the bounding box that           *)
(* draw.textbbox((0, 0), text, font) reports.  A font is given by the      *)
(* offset of the first glyph's ink from the drawing origin (left, top),    *)
(* the advance per character and the ink height, all in pixels at the      *)
(* loaded size.                                                            *)
(***************************************************************************)
Fonts == { [left |-> 0, top |-> 0, advance |-> 20, height |-> 30],
           [left |-> 2, top |-> 8, advance |-> 23, height |-> 29] }

\* (left, top, right, bottom)
textbbox(text, f) ==
    <<f.left, f.top, f.left + f.advance * Len(text), f.top + f.height>>

\* The position given to draw.text, in 1/200 pixel:
\*   x = (LABEL_WIDTH - (bbox[2] - bbox[0])) / 2
\*   y = (LABEL_HEIGHT * TEXT_AREA_HEIGHT_PERCENT / 100 - (bbox[3] - bbox[1])) / 2
TextPosition(bbox) ==
    [x |-> 100 * (LABEL_WIDTH - (bbox[3] - bbox[1])),
     y |-> LABEL_HEIGHT * TEXT_AREA_HEIGHT_PERCENT - 100 * (bbox[4] - bbox[2])]

\* draw.text(pos, text, font, fill="black"): the glyphs' ink lies where the
\* bounding box of the text lies once its origin is moved to pos.
DrawText(img, pos, text, f) ==
    LET bbox == textbbox(text, f)
    IN [img EXCEPT !.draws = Append(@,
          [text |-> text, fill |-> "black", size |-> FontSize,
           x |-> pos.x, y |-> pos.y,
           inkLeft |-> pos.x + Unit * bbox[1],
           inkTop |-> pos.y + Unit * bbox[2],
           inkRight |-> pos.x + Unit * bbox[3],
           inkBottom |-> pos.y + Unit * bbox[4]])]

\* Image.new("RGB", (LABEL_WIDTH, LABEL_HEIGHT), "white")
NewImage == [mode |-> "RGB", width |-> LABEL_WIDTH, height |-> LABEL_HEIGHT,
             background |-> "white", draws |-> <<>>]

\* The image create_label builds for a value: lines 130 to 134.
RenderOnto(base, value, f) ==
    LET text == LabelText(value)
        bbox == textbbox(text, f)
    IN DrawText(base, TextPosition(bbox), text, f)

Render(value, f) == RenderOnto(NewImage, value, f)

(***************************************************************************)
(* The output folder.  A file's content is a sequence of images: <<img>>   *)
(* for a complete PNG, <<>> for a file that was opened for writing and     *)
(* never completed.                                                        *)
(***************************************************************************)
\* Variant of Save that draws onto the image already in the file.
SaveAppending(fs, name, img) ==
    [n \in DOMAIN fs \cup {name} |->
        IF n = name
        THEN (IF name \in DOMAIN fs /\ fs[name] # <<>>
              THEN <<[img EXCEPT !.draws = fs[name][1].draws \o @]>>
              ELSE <<img>>)
        ELSE fs[n]]
\* Variant of Save that leaves no other file in the folder.
SaveOnly(fs, name, img) == [n \in {name} |-> <<img>>]
\* img.save(path): the file is created or truncated, then written whole.
Save(fs, name, img) ==
    [n \in DOMAIN fs \cup {name} |-> IF n = name THEN <<img>> ELSE fs[n]]

\* Variant of Truncate that removes the file, also one that existed before.
RemoveFile(fs, name) == [n \in DOMAIN fs \ {name} |-> fs[n]]
\* img.save(path) failing after the file was opened: the file is left empty
\* (a file that existed is truncated).  A save that fails before the file is
\* opened, or that removes the file it has just created, changes nothing.
Truncate(fs, name) ==
    [n \in DOMAIN fs \cup {name} |-> IF n = name THEN <<>> ELSE fs[n]]

\* What the folder may hold before the script runs.
StaleImage == [mode |-> "RGB", width |-> 118, height |-> 118,
               background |-> "white", draws |-> <<>>]
NotesName == <<"n", "o", "t", "e", "s">>
InitialFolders ==
    { [exists |-> FALSE, files |-> << >>],
      [exists |-> TRUE, files |-> << >>],
      [exists |-> TRUE,
       files |-> [n \in {FileName(10), NotesName} |-> <<StaleImage>>]] }

FontErrorMessage ==
    "Error: Could not load font 'Arial.ttf'. Ensure the file exists or update FONT_PATH."
DoneMessage == "Labels generated in 'labels' folder."

(***************************************************************************)
(* State.                                                                  *)
(*   values     the list handed to generate_labels                         *)
(*   font       the metrics of the font file at FONT_PATH, when it loads   *)
(*   pc         "loop": in generate_labels; "done": after the final print; *)
(*              "crashed": ended by an uncaught exception                  *)
(*   i          index of the next element of values                        *)
(*   dirExists, files   the output folder                                  *)
(*   log        what the process has printed                               *)
(*   renders    the calls of create_label made by this run, each with its  *)
(*              outcome                                                    *)
(*   written    the names of the files this run has opened for writing     *)
(*   run        number of the run of the script                            *)
(*   startFiles the folder's files when this run started                   *)
(*   prev       how the previous run ended                                 *)
(***************************************************************************)
VARIABLES values, font, pc, i, dirExists, files, log, renders, written,
          run, startFiles, prev

vars == <<values, font, pc, i, dirExists, files, log, renders, written,
          run, startFiles, prev>>

RECURSIVE SeqsUpTo(_, _)
SeqsUpTo(S, n) ==
    IF n = 0 THEN { << >> }
    ELSE LET shorter == SeqsUpTo(S, n - 1)
         IN shorter \cup { Append(s, e) : s \in shorter, e \in S }

NoPrev == [clean |-> FALSE, font |-> CHOOSE f \in Fonts : TRUE]

InitWith(lists) ==
    /\ values \in lists
    /\ font \in Fonts
    /\ pc = "loop"
    /\ i = 1
    /\ \E d \in InitialFolders : dirExists = d.exists /\ files = d.files
    /\ log = << >>
    /\ renders = << >>
    /\ written = {}
    /\ run = 1
    /\ startFiles = files
    /\ prev = NoPrev

Init == InitWith(SeqsUpTo(Values, MaxLen))

Outcome(value, result) == [value |-> value, result |-> result]

Faults == {"mkdir_fault", "save_fault"}

AllResults(r) == \A k \in 1..Len(renders) : renders[k].result = r

(***************************************************************************)
(* create_label(value), by what the environment does to it.                *)
(***************************************************************************)
\* os.makedirs raises (the folder is absent and cannot be created): the
\* exception is raised outside the try and leaves create_label.
create_label_mkdir_fault(value) ==
    /\ ~dirExists
    /\ renders' = Append(renders, Outcome(value, "mkdir_fault"))
    /\ pc' = "crashed"
    /\ UNCHANGED <<i, dirExists, files, log, written>>

\* Variant of create_label_font_error without the return: it goes on to save.
create_label_font_error_no_return(value) ==
    /\ dirExists' = TRUE
    /\ log' = Append(log, FontErrorMessage)
    /\ files' = Save(files, FileName(value), NewImage)
    /\ written' = written \cup {FileName(value)}
    /\ renders' = Append(renders, Outcome(value, "font_error"))
    /\ i' = i + 1
    /\ UNCHANGED pc

\* ImageFont.truetype raises OSError: the message is printed, the call returns.
create_label_font_error(value) ==
    /\ dirExists' = TRUE
    /\ log' = Append(log, FontErrorMessage)
    /\ renders' = Append(renders, Outcome(value, "font_error"))
    /\ i' = i + 1
    /\ UNCHANGED <<pc, files, written>>

\* The font loads, the image is drawn and saved.
create_label_saved(value) ==
    /\ dirExists' = TRUE
    /\ files' = Save(files, FileName(value), Render(value, font))
    /\ written' = written \cup {FileName(value)}
    /\ renders' = Append(renders, Outcome(value, "saved"))
    /\ i' = i + 1
    /\ UNCHANGED <<pc, log>>

\* Variant of create_label_save_fault with the save inside the try.
create_label_save_fault_caught(value) ==
    /\ dirExists' = TRUE
    /\ log' = Append(log, FontErrorMessage)
    /\ renders' = Append(renders, Outcome(value, "save_fault"))
    /\ i' = i + 1
    /\ UNCHANGED <<pc, files, written>>

\* img.save raises (the file cannot be opened, or the write fails): outside
\* the try, so the exception leaves create_label.
create_label_save_fault(value) ==
    /\ dirExists' = TRUE
    /\ \/ UNCHANGED <<files, written>>
       \/ /\ files' = Truncate(files, FileName(value))
          /\ written' = written \cup {FileName(value)}
    /\ renders' = Append(renders, Outcome(value, "save_fault"))
    /\ pc' = "crashed"
    /\ UNCHANGED <<i, log>>

create_label(value) ==
    \/ create_label_mkdir_fault(value)
    \/ create_label_font_error(value)
    \/ create_label_saved(value)
    \/ create_label_save_fault(value)

\* Variant of generate_labels that walks the list from its end.
generate_labels_reversed ==
    /\ pc = "loop"
    /\ i <= Len(values)
    /\ create_label(values[Len(values) + 1 - i])
    /\ UNCHANGED <<values, font, run, startFiles, prev>>

\* for v in values: create_label(v)   -- one iteration
generate_labels ==
    /\ pc = "loop"
    /\ i <= Len(values)
    /\ create_label(values[i])
    /\ UNCHANGED <<values, font, run, startFiles, prev>>

\* Variant of print_done that prints only if a label was written.
print_done_if_any_label ==
    /\ pc = "loop"
    /\ i > Len(values)
    /\ log' = IF written = {} THEN log ELSE Append(log, DoneMessage)
    /\ pc' = "done"
    /\ UNCHANGED <<values, font, i, dirExists, files, renders, written,
                   run, startFiles, prev>>

\* generate_labels has returned: print("Labels generated in 'labels' folder.")
print_done ==
    /\ pc = "loop"
    /\ i > Len(values)
    /\ log' = Append(log, DoneMessage)
    /\ pc' = "done"
    /\ UNCHANGED <<values, font, i, dirExists, files, renders, written,
                   run, startFiles, prev>>

\* The script is run again, on the folder the earlier run left; the font file
\* may have been replaced meanwhile.
Rerun ==
    /\ pc \in {"done", "crashed"}
    /\ run < MaxRuns
    /\ run' = run + 1
    /\ prev' = [clean |-> pc = "done" /\ AllResults("saved"), font |-> font]
    /\ font' \in Fonts
    /\ pc' = "loop"
    /\ i' = 1
    /\ log' = << >>
    /\ renders' = << >>
    /\ written' = {}
    /\ startFiles' = files
    /\ UNCHANGED <<values, dirExists, files>>

Next == generate_labels \/ print_done

\* One run of the script.
Spec == Init /\ [][Next]_vars

\* The script run up to MaxRuns times on the same folder.
InitRerun == InitWith(SeqsUpTo(RerunValues, MaxRerunLen))

NextRerun == generate_labels \/ print_done \/ Rerun

SpecRerun == InitRerun /\ [][NextRerun]_vars

(***************************************************************************)
(* Helpers of the properties.                                              *)
(***************************************************************************)
Range(s) == { s[k] : k \in 1..Len(s) }

Count(s, m) == Cardinality({ k \in 1..Len(s) : s[k] = m })

\* A complete image file.
Complete(n) == n \in DOMAIN files /\ Len(files[n]) = 1

\* Reading a decimal numeral back, independently of FormatInt.
DigitValue(c) ==
    CASE c = "0" -> 0 [] c = "1" -> 1 [] c = "2" -> 2 [] c = "3" -> 3
      [] c = "4" -> 4 [] c = "5" -> 5 [] c = "6" -> 6 [] c = "7" -> 7
      [] c = "8" -> 8 [] c = "9" -> 9

RECURSIVE ParseDigits(_)
ParseDigits(s) ==
    IF Len(s) = 0 THEN 0
    ELSE 10 * ParseDigits(SubSeq(s, 1, Len(s) - 1)) + DigitValue(s[Len(s)])

ParseInt(s) == IF s[1] = "-" THEN 0 - ParseDigits(Tail(s)) ELSE ParseDigits(s)

\* s without its last n characters
DropLast(s, n) == SubSeq(s, 1, Len(s) - n)

\* The height of the text band, LABEL_HEIGHT * TEXT_AREA_HEIGHT_PERCENT / 100
\* pixels, in 1/200 pixel.
BandHeight == 2 * LABEL_HEIGHT * TEXT_AREA_HEIGHT_PERCENT

\* The file the next step may write: that of the value about to be rendered.
RenderTarget ==
    IF pc = "loop" /\ i <= Len(values) THEN {FileName(values[i])} ELSE {}

(***************************************************************************)
(* C1: when every render of a finished run loaded the font and saved, the  *)
(* folder holds, for every value of the list, a complete image file named  *)
(* "<v>.png", one per distinct value, and the run has written no file of   *)
(* another name: every other file is as it was when the run started.       *)
(***************************************************************************)
C1_OneFilePerValue ==
    (pc = "done" /\ AllResults("saved")) =>
        /\ \A k \in 1..Len(values) : Complete(FileName(values[k]))
        /\ written = { FileName(v) : v \in Range(values) }
        /\ Cardinality(written) = Cardinality(Range(values))
        /\ DOMAIN files = DOMAIN startFiles \cup written
        /\ \A n \in DOMAIN files \ written : files[n] = startFiles[n]

C1_Witness ==
    /\ pc = "done" /\ AllResults("saved")
    /\ values = <<10, 100, 10>>
    /\ NotesName \in DOMAIN files
    /\ Cardinality(written) = 2

(***************************************************************************)
(* C2: as long as every render of the run failed on the font load, no      *)
(* exception has ended the process, no file has been written or changed,   *)
(* and one error message has been printed per render; at the normal end    *)
(* that is one per value of the list.                                      *)
(***************************************************************************)
C2_FontUnavailable ==
    AllResults("font_error") =>
        /\ pc # "crashed"
        /\ written = {}
        /\ files = startFiles
        /\ Count(log, FontErrorMessage) = Len(renders)
        /\ (pc = "loop" => i = Len(renders) + 1)
        /\ (pc = "done" => Count(log, FontErrorMessage) = Len(values))

C2_Witness ==
    /\ pc = "done" /\ AllResults("font_error")
    /\ values = <<10, 100>>
    /\ files = << >>
    /\ Count(log, FontErrorMessage) = 2

C4_ImageSize ==
    /\ LABEL_WIDTH = 177
    /\ LABEL_HEIGHT = 177
    /\ \A n \in written :
          Complete(n) => files[n][1].width = 177 /\ files[n][1].height = 177

C4_Witness ==
    /\ Complete(FileName(0)) /\ FileName(0) \in written
    /\ Complete(FileName(1000000)) /\ FileName(1000000) \in written
    /\ files[FileName(0)][1].draws[1].inkRight
          < files[FileName(1000000)][1].draws[1].inkRight

(***************************************************************************)
(* C5: a run that saves every label, made after a run that saved every     *)
(* label of the same list with the same font, leaves the folder as it      *)
(* found it: the same files with the same contents.                        *)
(***************************************************************************)
C5_RerunIdempotent ==
    (run >= 2 /\ pc = "done" /\ AllResults("saved")
       /\ prev.clean /\ prev.font = font) => files = startFiles

C5_Witness ==
    /\ run >= 2 /\ pc = "done" /\ AllResults("saved")
    /\ prev.clean /\ prev.font = font
    /\ values = <<10, 100>>
    /\ NotesName \in DOMAIN files

(***************************************************************************)
(* C6: the ink of the text of every saved label is centered: its left      *)
(* margin in the image equals its right margin, and its top margin equals  *)
(* its bottom margin within the text band                                  *)
(* [0, LABEL_HEIGHT * TEXT_AREA_HEIGHT_PERCENT / 100].                     *)
(***************************************************************************)
C6_TextCentered ==
    \A n \in written :
        Complete(n) =>
            \A k \in 1..Len(files[n][1].draws) :
                LET d == files[n][1].draws[k]
                IN /\ d.inkLeft = Unit * LABEL_WIDTH - d.inkRight
                   /\ d.inkTop = BandHeight - d.inkBottom

(***************************************************************************)
(* C7: the text of a saved label is the decimal numeral of its value       *)
(* followed by the ohm sign, the file is named by the same numeral         *)
(* followed by ".png" (100 gives "100Ω", 1000000 gives "1000000Ω"), and    *)
(* two values of the list have the same file name exactly when they are    *)
(* equal.                                                                  *)
(***************************************************************************)
C7_TextAndNameFromValue ==
    /\ \A k \in 1..Len(renders) :
          renders[k].result = "saved" =>
              \E n \in written :
                  /\ SubSeq(n, Len(n) - 3, Len(n)) = <<".", "p", "n", "g">>
                  /\ ParseInt(DropLast(n, 4)) = renders[k].value
                  /\ (Len(n) > 5 => n[1] # "0")
                  /\ Complete(n) =>
                        LET t == files[n][1].draws[1].text
                        IN /\ Len(files[n][1].draws) = 1
                           /\ t[Len(t)] = "Ω"
                           /\ DropLast(t, 1) = DropLast(n, 4)
    /\ \A v, w \in Range(values) : (FileName(v) = FileName(w)) <=> (v = w)
    /\ (100 \in Range(values) => LabelText(100) = <<"1", "0", "0", "Ω">>)
    /\ (1000000 \in Range(values) =>
          LabelText(1000000) = <<"1", "0", "0", "0", "0", "0", "0", "Ω">>)

C7_Witness ==
    /\ pc = "done" /\ AllResults("saved")
    /\ values = <<-7, 7, 1000000>>
    /\ Cardinality(written) = 3

(***************************************************************************)
(* C8: a failure of makedirs or of save is not caught: it ends the process *)
(* at the element where it occurs.  The call that failed is the last call  *)
(* of the run, nothing further happens, the final message is not printed,  *)
(* and the files saved for earlier elements are still there, unchanged     *)
(* unless the failed save was of the same file.                            *)
(***************************************************************************)
C8_OtherFaultsPropagate ==
    /\ \A k \in 1..Len(renders) :
          renders[k].result \in Faults => (pc = "crashed" /\ k = Len(renders))
    /\ pc = "crashed" =>
          /\ Len(renders) = i
          /\ renders[i].result \in Faults
          /\ renders[i].value = values[i]
          /\ DoneMessage \notin Range(log)
          /\ ~ ENABLED Next
          /\ \A k \in 1..(i - 1) :
                renders[k].result = "saved" =>
                    /\ FileName(values[k]) \in DOMAIN files
                    /\ FileName(values[k]) # FileName(values[i]) =>
                          files[FileName(values[k])] = <<Render(values[k], font)>>

C8_Witness ==
    /\ pc = "crashed"
    /\ i = 3
    /\ renders[1].result = "saved"
    /\ renders[2].result = "font_error"
    /\ renders[3].result = "save_fault"
    /\ values[1] # values[3]
    /\ Complete(FileName(values[1]))
    /\ FileName(values[3]) \in DOMAIN files
    /\ files[FileName(values[3])] = << >>

(***************************************************************************)
(* C9: the folder is never removed once it exists, no step removes a file  *)
(* name from it, and a render of value v adds or changes no file other     *)
(* than "<v>.png"; a step that is not a render changes no file.            *)
(***************************************************************************)
C9_FolderOnlyGrows ==
    [][ /\ (dirExists => dirExists')
        /\ DOMAIN files \subseteq DOMAIN files'
        /\ DOMAIN files' \subseteq DOMAIN files \cup RenderTarget
        /\ \A n \in DOMAIN files \ RenderTarget : files'[n] = files[n]
        /\ (DOMAIN files' # {} => dirExists') ]_vars

C9_Witness ==
    /\ Len(renders) = 3
    /\ renders[3].result = "save_fault"
    /\ startFiles # << >>
    /\ FileName(10) \in written
    /\ files[FileName(10)] = << >>
    /\ files[NotesName] = <<StaleImage>>
    /\ Cardinality(written) = 2

(***************************************************************************)
(* C10: the final message is printed exactly once, as the last output,     *)
(* after every element has been rendered, by every run that reaches its    *)
(* end, and by no run that does not; it is printed even if every render    *)
(* failed on the font load and nothing was written, and once a render has  *)
(* got past makedirs the folder exists.                                    *)
(***************************************************************************)
C10_FinalMessage ==
    /\ pc = "done" =>
          /\ Len(log) >= 1
          /\ log[Len(log)] = DoneMessage
          /\ Count(log, DoneMessage) = 1
          /\ Len(renders) = Len(values)
    /\ (pc # "done" => Count(log, DoneMessage) = 0)
    /\ ((pc = "loop" /\ i > Len(values)) => ENABLED print_done)
    /\ ((Len(renders) >= 1 /\ renders[1].result # "mkdir_fault") => dirExists)

C10_Witness ==
    /\ pc = "done"
    /\ Len(values) = 3
    /\ AllResults("font_error")
    /\ written = {}
    /\ files = << >>
    /\ dirExists
    /\ log[Len(log)] = DoneMessage

=============================================================================
